---- MODULE Spec2Model ----
(***************************************************************************)
(* Response-coding pipeline (coding_view) and category-discovery pipeline  *)
(* (category_view) of core/views.py, latest variant.                       *)
(*                                                                         *)
(* A text is a sequence of tokens.  A token is a string: one character     *)
(* ("1", ",", ";", " ", "a") or one of the marker words the code searches  *)
(* for ("Forbidden", "API error", "<!doctype").  A data frame is a record  *)
(* of its column names and its rows.                                       *)
(***************************************************************************)
EXTENDS Integers, Sequences, FiniteSets, TLC

\* ------------------------------------------------------------------ bounds
MaxQuestionRows == 2

\* merge inputs: CodeIds of the codebook are in 1..MaxCid, a reply table proposes
\* up to MaxProposed rows
MaxCid == 3

MaxProposed == 2

\* parse inputs: every reply of up to MaxReplyLen characters
MaxReplyLen == 5

\* aggregation inputs: a reply has up to MaxSegments segments
MaxSegments == 2

\* ------------------------------------------------- sequences and text
Range(s) == {s[i] : i \in 1..Len(s)}

Last(s) == s[Len(s)]

RECURSIVE SeqSum(_)
SeqSum(s) == IF s = <<>> THEN 0 ELSE Head(s) + SeqSum(Tail(s))

SeqsUpTo(S, n) == UNION {[1..k -> S] : k \in 0..n}

Whitespace == {" ", "\n"}

Digits == {"0", "1", "2", "3", "4", "5", "6", "7", "8", "9"}

DigitVal(d) ==
    CASE d = "0" -> 0 [] d = "1" -> 1 [] d = "2" -> 2 [] d = "3" -> 3
      [] d = "4" -> 4 [] d = "5" -> 5 [] d = "6" -> 6 [] d = "7" -> 7
      [] d = "8" -> 8 [] d = "9" -> 9

\* str.strip(): drop leading and trailing whitespace
RECURSIVE LStrip(_)
LStrip(s) == IF s # <<>> /\ Head(s) \in Whitespace THEN LStrip(Tail(s)) ELSE s

RECURSIVE RStrip(_)
RStrip(s) ==
    IF s # <<>> /\ Last(s) \in Whitespace
    THEN RStrip(SubSeq(s, 1, Len(s) - 1))
    ELSE s

Strip(s) == RStrip(LStrip(s))

\* str.split(sep): always at least one piece, empty pieces are kept
RECURSIVE SplitAcc(_, _, _)
SplitAcc(s, sep, cur) ==
    IF s = <<>> THEN <<cur>>
    ELSE IF Head(s) = sep
         THEN <<cur>> \o SplitAcc(Tail(s), sep, <<>>)
         ELSE SplitAcc(Tail(s), sep, Append(cur, Head(s)))

Split(s, sep) == SplitAcc(s, sep, <<>>)

\* str.lower() on the tokens that have an upper-case form in the model
LowerTok(t) == IF t = "<!DOCTYPE" THEN "<!doctype" ELSE t

Lower(s) == [i \in 1..Len(s) |-> LowerTok(s[i])]

\* `marker in text`
Contains(s, marker) == \E i \in 1..Len(s) : s[i] = marker

\* pd.to_numeric(x, errors='coerce') of a stripped field: a number or NaN
IsNumeric(s) == s # <<>> /\ \A i \in 1..Len(s) : s[i] \in Digits

RECURSIVE NumVal(_)
NumVal(s) ==
    IF s = <<>> THEN 0
    ELSE 10 * NumVal(SubSeq(s, 1, Len(s) - 1)) + DigitVal(Last(s))

\* --------------------------------------------------------- identifiers
\* A QID cell of the workbook is text or a number; v holds its printed form.
StrQ(v) == [t |-> "str", v |-> v]

IntQ(v) == [t |-> "int", v |-> v]

\* str(qid)
Str(q) == [t |-> "str", v |-> q.v]

QIDs == {StrQ("Q1"), IntQ("2")}

\* an empty QID cell
NoQid == [t |-> "nan", v |-> ""]

\* ----------------------------------------------------------- transport
\* What one requests.post(...) + raise_for_status() can do.
T_two == <<"1", ",", "5", ",", "7", ";", "2", ",", "5">>

T_one == <<"2", ",", "7", " ">>

T_nocode == <<"3", ",">>

T_word == <<"a">>

T_nonnum == <<"a", ",", "5">>

T_blank == <<" ">>

T_apierr == <<"1", ",", "5", ";", "API error">>

T_forbidden == <<"1", ",", "Forbidden">>

T_html == <<"<!DOCTYPE", "a">>

\* the documented example "1,5,7;2,5;abc;3,"
T_example ==
    <<"1", ",", "5", ",", "7", ";", "2", ",", "5", ";", "a", "b", "c", ";", "3", ",">>

\* "a,5,7;1,5": the segment with the most codes has a non-numeric id
T_wide == <<"a", ",", "5", ",", "7", ";", "1", ",", "5">>

ReplyTexts ==
    {<<>>, T_two, T_one, T_nocode, T_word, T_nonnum, T_blank, T_apierr, T_forbidden}

RawTexts == {<<>>, T_html, T_one, T_word}

\* markdown tables the discovery call can return
MdLine(a, b) == <<"|">> \o a \o <<"|">> \o b \o <<"|", "\n">>

MdHeader == MdLine(<<" ", "kod_gozine", " ">>, <<"onvan_gozine">>)

MdRule == MdLine(<<"---">>, <<"---">>)

M_two == MdHeader \o MdRule \o MdLine(<<"2">>, <<"a">>) \o MdLine(<<" ", "4">>, <<"b">>)

M_norule == MdHeader \o MdLine(<<"1">>, <<"a">>)

M_ragged ==
    MdHeader \o MdRule \o <<"|", "3", "|", "a", "|", "b", "|", "\n">> \o MdLine(<<"3">>, <<"c">>)

M_badheader == MdLine(<<"a">>, <<"onvan_gozine">>) \o MdRule \o MdLine(<<"1">>, <<"a">>)

M_nonnum == MdHeader \o MdRule \o MdLine(<<"a">>, <<"b">>)

M_short == MdHeader \o MdRule \o <<"|", "3", "|", "\n">>

TableTexts ==
    {<<>>, T_blank, T_word, M_two, M_norule, M_ragged, M_short, M_badheader, M_nonnum}

RawTableTexts == {<<>>, T_html, M_norule}

ResponsesOf(json_texts, raw_texts) ==
    {[kind |-> k, text |-> <<>>] :
        k \in {"RequestException", "json_undecodable", "json_nochoices", "json_nocontent"}}
    \cup {[kind |-> "json", text |-> t] : t \in json_texts}
    \cup {[kind |-> "text", text |-> t] : t \in raw_texts}

Responses == ResponsesOf(ReplyTexts, RawTexts)

TableResponses == ResponsesOf(TableTexts, RawTableTexts)

\* the probe reads nothing of the response: it is raised or not
ProbeResponses == ResponsesOf({}, {<<>>})

\* requests.post / raise_for_status raise requests.exceptions.RequestException
RaisesRequestException(r) == r.kind = "RequestException"

\* api_response.json() raises json.JSONDecodeError
RaisesJSONDecodeError(r) == r.kind = "json_undecodable"

\* response_json.get('choices', [{}])[0] raises IndexError when choices == []
RaisesIndexError(r) == r.kind = "json_nochoices"

IsJson(r) == r.kind \in {"json", "json_undecodable", "json_nochoices", "json_nocontent"}

\* response_json.get('choices', [{}])[0].get('message', {}).get('content', '')
JsonContent(r) == IF r.kind = "json" THEN r.text ELSE <<>>

ForbiddenHtml == <<"Forbidden", " ", "HTML", " ", "response">>

\* ----------------------------------------------------------- parse_output
NaN == <<>>

EmptyFrame == [hasID |-> FALSE, columns |-> <<>>, rows |-> <<>>]

\* DataFrame.empty: some axis has length 0
FrameEmptyNoAxes(df) == ~df.hasID /\ df.columns = <<>>

FrameEmpty(df) == (~df.hasID /\ df.columns = <<>>) \/ df.rows = <<>>

ColName(qid, i) == [qid |-> Str(qid), sep |-> "_", i |-> i]

\* [code.strip() for code in items[1:] if code.strip()]
RECURSIVE Codes(_)
Codes(items) ==
    IF items = <<>> THEN <<>>
    ELSE IF Strip(Head(items)) # <<>>
         THEN <<Strip(Head(items))>> \o Codes(Tail(items))
         ELSE Codes(Tail(items))

\* the loop over parts: the (id_val, codes) pairs appended to data
RECURSIVE ParseParts(_)
ParseParts(parts) ==
    IF parts = <<>> THEN <<>>
    ELSE LET part == Head(parts)
             items == Split(Strip(part), ",")
         IN  IF Strip(part) = <<>> \/ Len(items) < 2
             THEN ParseParts(Tail(parts))
             ELSE <<[id_val |-> Strip(items[1]), codes |-> Codes(Tail(items))]>>
                  \o ParseParts(Tail(parts))

RECURSIVE MaxCodes(_)
MaxCodes(data) ==
    IF data = <<>> THEN 0
    ELSE LET m == MaxCodes(Tail(data))
             n == Len(Head(data).codes)
         IN  IF n > m THEN n ELSE m

PadCells(codes, n) == [i \in 1..n |-> IF i <= Len(codes) THEN codes[i] ELSE NaN]

\* the rows kept by dropna(subset=['ID'])
FrameRowsFillna(data, n) ==
    [i \in 1..Len(data) |->
        [ID |-> IF IsNumeric(data[i].id_val) THEN NumVal(data[i].id_val) ELSE 0,
         cells |-> PadCells(data[i].codes, n)]]

RECURSIVE FrameRows(_, _)
FrameRows(data, n) ==
    IF data = <<>> THEN <<>>
    ELSE IF IsNumeric(Head(data).id_val)
         THEN <<[ID |-> NumVal(Head(data).id_val), cells |-> PadCells(Head(data).codes, n)]>>
              \o FrameRows(Tail(data), n)
         ELSE FrameRows(Tail(data), n)

parse_output(output, qid) ==
    LET data == ParseParts(Split(Strip(output), ";"))
        max_codes == MaxCodes(data)
    IN  IF data = <<>> THEN EmptyFrame
        ELSE [hasID |-> TRUE,
              columns |-> [i \in 1..max_codes |-> ColName(qid, i)],
              rows |-> FrameRows(data, max_codes)]

\* ------------------------------------------------------ aggregation passes
RECURSIVE SeqMap(_, _)
SeqMap(Op(_), s) == IF s = <<>> THEN <<>> ELSE <<Op(Head(s))>> \o SeqMap(Op, Tail(s))

RECURSIVE Flatten(_)
Flatten(ss) == IF ss = <<>> THEN <<>> ELSE Head(ss) \o Flatten(Tail(ss))

\* the distinct values of a sequence, in first-seen order (Series.unique())
RECURSIVE Unique(_)
Unique(s) ==
    IF s = <<>> THEN <<>>
    ELSE LET u == Unique(SubSeq(s, 1, Len(s) - 1))
         IN  IF Last(s) \in Range(u) THEN u ELSE Append(u, Last(s))

\* stable sort of rows by ID ascending (sort_values('ID'))
RECURSIVE InsertByID(_, _)
InsertByID(row, sorted) ==
    IF sorted = <<>> THEN <<row>>
    ELSE IF row.ID < Head(sorted).ID
         THEN <<row>> \o sorted
         ELSE <<Head(sorted)>> \o InsertByID(row, Tail(sorted))

RECURSIVE SortByID(_)
SortByID(rows) ==
    IF rows = <<>> THEN <<>>
    ELSE InsertByID(Last(rows), SortByID(SubSeq(rows, 1, Len(rows) - 1)))

NaNs(n) == [i \in 1..n |-> NaN]

\* pd.merge(left, right, on='ID', how='outer')
MergeInner(left, right) ==
    [hasID |-> TRUE,
     columns |-> left.columns \o right.columns,
     rows |-> Flatten(SeqMap(LAMBDA l : SeqMap(LAMBDA r : [ID |-> l.ID, cells |-> l.cells \o r.cells],
                                              SelectSeq(right.rows, LAMBDA r : r.ID = l.ID)),
                             left.rows))]

MergeOuter(left, right) ==
    LET nl == Len(left.columns)
        nr == Len(right.columns)
        RightOf(id) == SelectSeq(right.rows, LAMBDA r : r.ID = id)
        LeftRow(l) ==
            IF RightOf(l.ID) = <<>>
            THEN <<[ID |-> l.ID, cells |-> l.cells \o NaNs(nr)]>>
            ELSE SeqMap(LAMBDA r : [ID |-> l.ID, cells |-> l.cells \o r.cells], RightOf(l.ID))
        RightOnly(r) ==
            IF \E i \in 1..Len(left.rows) : left.rows[i].ID = r.ID
            THEN <<>>
            ELSE <<[ID |-> r.ID, cells |-> NaNs(nl) \o r.cells]>>
    IN  [hasID |-> TRUE,
         columns |-> left.columns \o right.columns,
         rows |-> SortByID(Flatten(SeqMap(LeftRow, left.rows))
                           \o Flatten(SeqMap(RightOnly, right.rows)))]

\* reduce(lambda left, right: pd.merge(...), dfs) then sort_values('ID')
RECURSIVE Reduce(_)
Reduce(frames) ==
    IF Len(frames) = 1 THEN frames[1]
    ELSE MergeOuter(Reduce(SubSeq(frames, 1, Len(frames) - 1)), Last(frames))

MergedDf(frames) ==
    LET m == Reduce(frames)
    IN  [m EXCEPT !.rows = SortByID(m.rows)]

\* astype(str) of a cell: NaN prints as 'nan'
AsStr(cell) == IF cell = NaN THEN <<"n", "a", "n">> ELSE cell

\* pd.melt + strip + the two filters: the (ID, Code) pairs with a numeric code,
\* column by column
Melted(qid_df) ==
    LET OfCol(j) ==
            SeqMap(LAMBDA r : [ID |-> r.ID, Code |-> Strip(AsStr(r.cells[j]))], qid_df.rows)
        all == Flatten([j \in 1..Len(qid_df.columns) |-> OfCol(j)])
    IN  SelectSeq(all, LAMBDA m : m.Code # <<>> /\ IsNumeric(m.Code))

CountOf(melted, code) == Len(SelectSeq(melted, LAMBDA m : m.Code = code))

\* value_counts(): one entry per code, most frequent first
RECURSIVE InsertByCount(_, _)
InsertByCount(e, sorted) ==
    IF sorted = <<>> THEN <<e>>
    ELSE IF e.Count > Head(sorted).Count
         THEN <<e>> \o sorted
         ELSE <<Head(sorted)>> \o InsertByCount(e, Tail(sorted))

RECURSIVE SortByCount(_)
SortByCount(es) ==
    IF es = <<>> THEN <<>>
    ELSE InsertByCount(Last(es), SortByCount(SubSeq(es, 1, Len(es) - 1)))

ValueCounts(melted) ==
    LET codes == Unique(SeqMap(LAMBDA m : m.Code, melted))
    IN  SortByCount(SeqMap(LAMBDA c : [Code |-> c, Count |-> CountOf(melted, c)], codes))

\* codeframe_df['CID'] == code: the CID cells are numbers, the code is a str
CidIsCode(cid, code) == FALSE

\* the Tag lookup of the summary
TagOf(codeframe, code) ==
    LET hits == SelectSeq(codeframe, LAMBDA r : CidIsCode(r.CID, code))
    IN  IF hits = <<>> THEN <<>> ELSE hits[1].Tag

Ratio(count, total_ids) ==
    IF total_ids > 0 THEN [num |-> count, den |-> total_ids] ELSE [num |-> 0, den |-> 1]

TotalIds(merged) == Len(Unique(SeqMap(LAMBDA r : r.ID, merged.rows)))

\* the codeframe summary: lines 419-438
CodeframeSummary(processed, frames, merged, codeframe) ==
    LET total_ids == IF FrameEmpty(merged) THEN 0 ELSE TotalIds(merged)
        OfQid(i) ==
            SeqMap(LAMBDA e : [QID |-> processed[i], Code |-> e.Code,
                               Tag |-> TagOf(codeframe, e.Code), Tag_en |-> <<>>,
                               Count |-> e.Count, Ratio |-> Ratio(e.Count, total_ids)],
                   ValueCounts(Melted(frames[i])))
    IN  Flatten([i \in 1..Len(processed) |-> OfQid(i)])

BinName(qid, code) == [qid |-> Str(qid), sep |-> "-", code |-> code]

\* 1 if not melted[...].empty else pd.NA
BinCellZero(assigned) == IF assigned THEN "1" ELSE "0"

BinCell(assigned) == IF assigned THEN "1" ELSE "NA"

\* the binary sheet: lines 441-454; a cell is 1 or <NA>
BinaryDf(processed, frames, merged) ==
    LET ids == Unique(SeqMap(LAMBDA r : r.ID, SortByID(merged.rows)))
        ColsOf(i) ==
            SeqMap(LAMBDA c : [name |-> BinName(processed[i], c), frame |-> i, code |-> c],
                   Unique(SeqMap(LAMBDA m : m.Code, Melted(frames[i]))))
        cols == Flatten([i \in 1..Len(processed) |-> ColsOf(i)])
        Cell(id, col) ==
            BinCell(\E k \in 1..Len(Melted(frames[col.frame])) :
                        /\ Melted(frames[col.frame])[k].ID = id
                        /\ Melted(frames[col.frame])[k].Code = col.code)
    IN  [columns |-> SeqMap(LAMBDA c : c.name, cols),
         rows |-> SeqMap(LAMBDA id : [ID |-> id,
                                      cells |-> [j \in 1..Len(cols) |-> Cell(id, cols[j])]],
                         ids)]

\* ---------------------------------------------------------- parse_md_table
\* the two expected header cells ('kod gozine', 'onvan gozine' in the source's language)
HdrCode == <<"kod_gozine">>

HdrLabel == <<"onvan_gozine">>

expected_cols == <<HdrCode, HdrLabel>>

\* s[1:-1]
Inner(s) == IF Len(s) < 2 THEN <<>> ELSE SubSeq(s, 2, Len(s) - 1)

\* [c.strip() for c in line.split('|')[1:-1]]
Cells(line) == SeqMap(Strip, Inner(Split(line, "|")))

\* [ln.strip() for ln in md_table.strip().split('\n') if ln.strip()]
Lines(md_table) ==
    SelectSeq(SeqMap(Strip, Split(Strip(md_table), "\n")), LAMBDA ln : ln # <<>>)

\* the data rows that are kept: those with as many cells as the header
KeptRowsStrict(lines, data_start, header_cells) ==
    IF \E i \in data_start..Len(lines) : Len(Cells(lines[i])) # Len(header_cells)
    THEN <<>>
    ELSE SeqMap(Cells, SubSeq(lines, data_start, Len(lines)))

KeptRows(lines, data_start, header_cells) ==
    SelectSeq(SeqMap(Cells, SubSeq(lines, data_start, Len(lines))),
              LAMBDA cells : Len(cells) = Len(header_cells))

\* None is <<>>: a result that is not None always has a row
None == <<>>

parse_md_table(md_table) ==
    LET lines == Lines(md_table)
    IN  IF Len(lines) < 2 THEN None
        ELSE LET header_cells == Cells(lines[1])
                 data_start == IF Contains(lines[2], "---") THEN 3 ELSE 2
                 data_rows == KeptRows(lines, data_start, header_cells)
             IN  IF data_rows = <<>> THEN None
                 ELSE IF header_cells # expected_cols THEN None
                 ELSE SeqMap(LAMBDA c : [cid |-> NumVal(c[1]), tag |-> c[2]],
                             SelectSeq(data_rows, LAMBDA c : IsNumeric(c[1])))

\* ------------------------------------------------- merging new categories
RECURSIVE SeqMax(_)
SeqMax(s) ==
    IF s = <<>> THEN 0
    ELSE LET m == SeqMax(Tail(s)) IN IF Head(s) > m THEN Head(s) ELSE m

\* new_dfs[key] = df_new on an insertion-ordered dict
DictSet(d, key, val) ==
    IF \E i \in 1..Len(d) : d[i].key = key
    THEN [i \in 1..Len(d) |-> IF d[i].key = key THEN [key |-> key, rows |-> val] ELSE d[i]]
    ELSE Append(d, [key |-> key, rows |-> val])

\* updated_codeframe[updated_codeframe['QID'] == qid]
RowsOfQid(codeframe, qid) == SelectSeq(codeframe, LAMBDA r : r.QID = qid)

ExistingCids(codeframe, qid) == {r.CID : r \in Range(RowsOfQid(codeframe, qid))}

\* max(existing_cids) if existing_cids else 0
StartMaxCid(codeframe, qid) ==
    SeqMax(SeqMap(LAMBDA r : r.CID, RowsOfQid(codeframe, qid)))

\* the CID for a proposed cid that is not present: honoured above max_cid, else sequential
NewCidAlwaysNext(cid, max_cid) == max_cid + 1

NewCid(cid, max_cid) == IF cid > max_cid THEN cid ELSE max_cid + 1

\* the loop over df_new.iterrows(): the new_rows list
RECURSIVE NewRows(_, _, _, _)
NewRows(qid, proposed, existing_cids, max_cid) ==
    IF proposed = <<>> THEN <<>>
    ELSE LET cid == Head(proposed).cid
             tag == Head(proposed).tag
         IN  IF cid \notin existing_cids
             THEN <<[QID |-> qid, CID |-> NewCid(cid, max_cid), Tag |-> tag,
                     Description |-> NaN]>>
                  \o NewRows(qid, Tail(proposed), existing_cids, NewCid(cid, max_cid))
             ELSE NewRows(qid, Tail(proposed), existing_cids, max_cid)

\* one pass of the loop over new_dfs.items(): lines 750-771; pd.concat leaves the
\* Description of the new rows, which have no such key, missing
MergeQidNewFirst(codeframe, qid, df_new) ==
    NewRows(qid, df_new, ExistingCids(codeframe, qid), StartMaxCid(codeframe, qid)) \o codeframe

MergeQid(codeframe, qid, df_new) ==
    codeframe \o NewRows(qid, df_new, ExistingCids(codeframe, qid), StartMaxCid(codeframe, qid))

\* the whole loop
RECURSIVE MergeAll(_, _)
MergeAll(codeframe, items) ==
    IF items = <<>> THEN codeframe
    ELSE MergeAll(MergeQid(codeframe, Head(items).key, Head(items).rows), Tail(items))

\* ------------------------------------------------------------ the workbook
RequiredSheets == {"codeframe", "question", "data"}

\* a workbook: its sheets and, per sheet, whether the required columns are there
Workbooks ==
    [sheet_names : SUBSET RequiredSheets,
     codeframe_cols : BOOLEAN, question_cols : BOOLEAN, data_cols : BOOLEAN]

NoError == [kind |-> "none", what |-> "", missing |-> {}]

\* the try block that loads and validates the workbook: the first failed check raises
ValidationError(wb) ==
    LET missing == {sh \in RequiredSheets : sh \notin wb.sheet_names}
    IN  IF missing # {} THEN [kind |-> "config", what |-> "sheets", missing |-> missing]
        ELSE IF ~wb.codeframe_cols
             THEN [kind |-> "config", what |-> "codeframe", missing |-> {}]
        ELSE IF ~wb.question_cols
             THEN [kind |-> "config", what |-> "question", missing |-> {}]
        ELSE IF ~wb.data_cols
             THEN [kind |-> "config", what |-> "data", missing |-> {}]
        ELSE NoError

\* question_df['QID'].dropna().unique().tolist()
UniqueQids(qid_column) == Unique(SelectSeq(qid_column, LAMBDA q : q # NoQid))

QuestionTables == SeqsUpTo(QIDs \cup {NoQid}, MaxQuestionRows)

\* codebooks of the pipeline runs: rows (QID, CID, Tag, Description) with unique (QID, CID)
CfRow(q, c, tag) == [QID |-> q, CID |-> c, Tag |-> tag, Description |-> <<"d">>]

PipelineCodebooks ==
    {<<>>,
     <<CfRow(StrQ("Q1"), 1, <<"a">>), CfRow(StrQ("Q1"), 2, <<"b">>), CfRow(IntQ("2"), 2, <<"c">>)>>}

\* the data sheet: an ID column and one column of answers per question
DataRow(id, answers) == [ID |-> id, answers |-> answers]

\* the data sheet of a workbook: a column for each question of the question sheet, and
\* two respondents, the second of whom left the last question unanswered
DataOf(question) ==
    LET cols == SeqMap(Str, UniqueQids(question))
    IN  [columns |-> cols,
         rows |-> <<DataRow(1, [i \in 1..Len(cols) |-> <<"a">>]),
                    DataRow(2, [i \in 1..Len(cols) |-> IF i = Len(cols) THEN NaN ELSE <<"b">>])>>]

\* ------------------------------------------------------------------ state
VARIABLES
    view,               \* "coding_view" or "category_view"
    pc,                 \* position in the view
    workbook,           \* the uploaded workbook
    question_df,        \* the QID column of the question sheet
    codeframe_df,       \* the codeframe sheet
    data_df,            \* the data sheet
    errors,             \* context['errors']
    unique_qids, qi,    \* the for loop over the questions and its index
    retries, success, output,
    fail_qids, processed_qids, dfs,
    df_parsed,          \* the frame parse_output returned last
    merged_df, df_codeframe, binary_df,
    attempt, response_md, new_dfs, updated_codeframe,
    excel_buffer,       \* the workbook the category view writes
    probes, calls, sleeps,  \* the transport's and time.sleep's call logs
    qcalls, net_only, responded     \* of the current question: the calls made, whether each
                                    \* raised RequestException, those that were not caught

vars == <<view, pc, workbook, question_df, codeframe_df, data_df, errors, unique_qids, qi,
          retries, success, output, fail_qids, processed_qids, dfs, df_parsed,
          merged_df, df_codeframe, binary_df,
          attempt, response_md, new_dfs, updated_codeframe, excel_buffer,
          probes, calls, sleeps, qcalls, net_only, responded>>

codingVars == <<retries, success, output, fail_qids, processed_qids, dfs, df_parsed,
                merged_df, df_codeframe, binary_df>>

categoryVars == <<attempt, response_md, new_dfs, updated_codeframe, excel_buffer>>

inputVars == <<view, workbook, question_df, codeframe_df, data_df>>

logVars == <<qcalls, net_only, responded>>

NoTable == [columns |-> <<>>, rows |-> <<>>]

\* nothing written yet
NoWorkbook == [sheet_names |-> <<>>]

Locals ==
    /\ errors = NoError
    /\ unique_qids = <<>> /\ qi = 0
    /\ retries = 0 /\ success = FALSE /\ output = <<>>
    /\ fail_qids = <<>> /\ processed_qids = <<>> /\ dfs = <<>> /\ df_parsed = EmptyFrame
    /\ merged_df = EmptyFrame /\ df_codeframe = <<>> /\ binary_df = NoTable
    /\ attempt = 0 /\ response_md = <<>> /\ new_dfs = <<>>
    /\ updated_codeframe = <<>> /\ excel_buffer = NoWorkbook
    /\ probes = 0 /\ calls = 0 /\ sleeps = <<>>
    /\ qcalls = 0 /\ net_only = TRUE /\ responded = 0

Init ==
    /\ view \in {"coding_view", "category_view"}
    /\ pc = "probe"
    /\ workbook \in Workbooks
    /\ IF ValidationError(workbook) = NoError
       THEN /\ question_df \in QuestionTables /\ codeframe_df \in PipelineCodebooks
            /\ data_df = DataOf(question_df)
       ELSE question_df = <<>> /\ codeframe_df = <<>> /\ data_df = NoTable
    /\ Locals

\* ------------------------------------------------------- both views
\* where the view goes after the probe: the except clause returns the rendered page
AfterProbeNoReturn(r) == "load"

AfterProbe(r) == IF RaisesRequestException(r) THEN "returned" ELSE "load"

\* the connectivity probe: lines 252-267 and 570-585
TestConnection(r) ==
    /\ pc = "probe"
    /\ probes' = probes + 1
    /\ errors' = IF RaisesRequestException(r)
                 THEN [kind |-> "connection", what |-> "", missing |-> {}]
                 ELSE errors
    /\ pc' = AfterProbe(r)
    /\ UNCHANGED <<inputVars, unique_qids, qi, codingVars, categoryVars, calls, sleeps,
                   logVars>>

\* loading and validating the workbook: lines 269-304 and 587-619, then the
\* list of the questions (line 333, line 656)
LoadWorkbook ==
    /\ pc = "load"
    /\ errors' = ValidationError(workbook)
    /\ IF ValidationError(workbook) = NoError
       THEN /\ unique_qids' = UniqueQids(question_df)
            /\ updated_codeframe' = IF view = "category_view" THEN codeframe_df ELSE <<>>
            /\ pc' = "loop"
       ELSE /\ UNCHANGED <<unique_qids, updated_codeframe>>
            /\ pc' = "returned"
    /\ UNCHANGED <<inputVars, qi, codingVars, attempt, response_md, new_dfs, excel_buffer,
                   probes, calls, sleeps, logVars>>

\* ------------------------------------------------------- coding_view
max_retries == 6

CodingDelay == 10

\* the for loop's header and the prompt: lines 340-381
NextQuestion ==
    /\ view = "coding_view" /\ pc = "loop"
    /\ IF qi < Len(unique_qids)
       THEN /\ qi' = qi + 1
            /\ retries' = 0 /\ output' = <<>> /\ success' = FALSE
            /\ sleeps' = <<>>
            /\ qcalls' = 0 /\ net_only' = TRUE /\ responded' = 0
            /\ pc' = "call"
       ELSE /\ UNCHANGED <<qi, retries, output, success, sleeps, logVars>>
            /\ pc' = "aggregate"
    /\ UNCHANGED <<inputVars, errors, unique_qids, fail_qids, processed_qids, dfs, df_parsed,
                   merged_df, df_codeframe, binary_df, categoryVars, probes, calls>>

\* the except clause of the coding call: what it catches
CodingCaught(r) == RaisesRequestException(r) \/ RaisesJSONDecodeError(r)

\* the text the try block of the coding call assigns to output
CodingOutput(r) ==
    IF IsJson(r) THEN JsonContent(r)
    ELSE IF Contains(Lower(r.text), "<!doctype") THEN ForbiddenHtml ELSE r.text

\* time.sleep(10) only when another attempt follows
CodingSleepsAlways(n) == TRUE

CodingSleeps(n) == n < max_retries

\* success = True at the end of the try block, whatever the text
CodingSucceedsNonEmpty(text) == text # <<>>

CodingSucceeds(text) == TRUE

\* while not success and retries < max_retries
CodingLoopsUntilSuccess(ok, n) == ~ok

CodingLoops(ok, n) == ~ok /\ n < max_retries

\* one pass of the while loop: lines 382-397
Attempt(r) ==
    /\ view = "coding_view" /\ pc = "call"
    /\ CodingLoops(success, retries)
    /\ calls' = calls + 1
    /\ qcalls' = qcalls + 1
    /\ net_only' = (net_only /\ RaisesRequestException(r))
    /\ responded' = IF CodingCaught(r) THEN responded ELSE responded + 1
    /\ IF CodingCaught(r)
       THEN /\ retries' = retries + 1
            /\ sleeps' = IF CodingSleeps(retries + 1) THEN Append(sleeps, CodingDelay) ELSE sleeps
            /\ pc' = IF CodingLoops(success, retries + 1) THEN "call" ELSE "classify"
            /\ UNCHANGED <<output, success>>
       ELSE IF RaisesIndexError(r)
       THEN /\ pc' = "crashed"
            /\ UNCHANGED <<retries, sleeps, output, success>>
       ELSE /\ output' = CodingOutput(r)
            /\ success' = CodingSucceeds(CodingOutput(r))
            /\ pc' = IF CodingSucceeds(CodingOutput(r)) THEN "classify" ELSE "call"
            /\ UNCHANGED <<retries, sleeps>>
    /\ UNCHANGED <<inputVars, errors, unique_qids, qi, fail_qids, processed_qids, dfs,
                   df_parsed, merged_df, df_codeframe, binary_df, categoryVars, probes>>

\* 'Forbidden' in output or 'API error' in output
HasMarkerForbiddenOnly(text) == Contains(text, "Forbidden")

HasMarker(text) == Contains(text, "Forbidden") \/ Contains(text, "API error")

\* the test of line 398
CallFailed(ok, text) == ~ok \/ text = <<>> \/ HasMarker(text)

\* the question reaches lines 405-407: neither `continue` was taken
RetainsAnyFrame(ok, text, frame) == ~FrameEmpty(frame)

Retains(ok, text, frame) == ~CallFailed(ok, text) /\ ~FrameEmpty(frame)

\* after the while loop: lines 398-407
Classify ==
    /\ view = "coding_view" /\ pc = "classify"
    /\ LET qid == unique_qids[qi]
           parsed == parse_output(output, qid)
       IN  /\ df_parsed' = IF CallFailed(success, output) THEN df_parsed ELSE parsed
           /\ fail_qids' = IF CallFailed(success, output) \/ FrameEmpty(parsed)
                           THEN Append(fail_qids, qid) ELSE fail_qids
           /\ IF Retains(success, output, parsed)
              THEN /\ dfs' = Append(dfs, parsed)
                   /\ processed_qids' = Append(processed_qids, qid)
              ELSE UNCHANGED <<dfs, processed_qids>>
    /\ pc' = "loop"
    /\ UNCHANGED <<inputVars, errors, unique_qids, qi, retries, success, output,
                   merged_df, df_codeframe, binary_df, categoryVars, probes, calls, sleeps,
                   logVars>>

\* if not dfs
NoDataOffByOne(frames) == Len(frames) <= 1

NoData(frames) == frames = <<>>

\* after the for loop: lines 409-454
Aggregate ==
    /\ view = "coding_view" /\ pc = "aggregate"
    /\ IF NoData(dfs)
       THEN /\ errors' = [kind |-> "no_data", what |-> "", missing |-> {}]
            /\ UNCHANGED <<merged_df, df_codeframe, binary_df>>
       ELSE /\ merged_df' = MergedDf(dfs)
            /\ df_codeframe' = CodeframeSummary(processed_qids, dfs, MergedDf(dfs), codeframe_df)
            /\ binary_df' = BinaryDf(processed_qids, dfs, MergedDf(dfs))
            /\ UNCHANGED errors
    /\ pc' = "returned"
    /\ UNCHANGED <<inputVars, unique_qids, qi, retries, success, output,
                   fail_qids, processed_qids, dfs, df_parsed, categoryVars, probes, calls,
                   sleeps, logVars>>

\* ------------------------------------------------------- category_view
max_attempts == 5

CategoryDelay == 5

\* the for loop's header and the prompt: lines 658-709
CatNextQuestion ==
    /\ view = "category_view" /\ pc = "loop"
    /\ IF qi < Len(unique_qids)
       THEN /\ qi' = qi + 1
            /\ attempt' = 0 /\ response_md' = None
            /\ sleeps' = <<>>
            /\ qcalls' = 0 /\ net_only' = TRUE /\ responded' = 0
            /\ pc' = "call"
       ELSE /\ UNCHANGED <<qi, attempt, response_md, sleeps, logVars>>
            /\ pc' = "merge"
    /\ UNCHANGED <<inputVars, errors, unique_qids, codingVars, new_dfs, updated_codeframe,
                   excel_buffer, probes, calls>>

\* except Exception: everything the try block raises is caught
CategoryCaught(r) ==
    RaisesRequestException(r) \/ RaisesJSONDecodeError(r) \/ RaisesIndexError(r)

\* the text the try block of the discovery call assigns to response_md
CategoryOutput(r) ==
    IF IsJson(r) THEN JsonContent(r)
    ELSE IF Contains(Lower(r.text), "<!doctype") THEN <<>> ELSE r.text

\* if response_md and response_md.strip(): break
CategoryBreaksAlways(text) == TRUE

CategoryBreaks(text) == text # <<>> /\ Strip(text) # <<>>

\* the except clause sleeps before `continue`, whatever the attempt number
CategorySleeps(n) == TRUE

\* one pass of the while loop: lines 710-738
CatAttempt(r) ==
    /\ view = "category_view" /\ pc = "call"
    /\ attempt < max_attempts
    /\ attempt' = attempt + 1
    /\ calls' = calls + 1
    /\ qcalls' = qcalls + 1
    /\ net_only' = (net_only /\ RaisesRequestException(r))
    /\ responded' = IF CategoryCaught(r) THEN responded ELSE responded + 1
    /\ IF CategoryCaught(r)
       THEN /\ sleeps' = IF CategorySleeps(attempt + 1)
                         THEN Append(sleeps, CategoryDelay) ELSE sleeps
            /\ response_md' = response_md
            /\ pc' = IF attempt + 1 < max_attempts THEN "call" ELSE "classify"
       ELSE /\ response_md' = CategoryOutput(r)
            /\ sleeps' = sleeps
            /\ pc' = IF CategoryBreaks(CategoryOutput(r)) \/ ~(attempt + 1 < max_attempts)
                     THEN "classify" ELSE "call"
    /\ UNCHANGED <<inputVars, errors, unique_qids, qi, codingVars, new_dfs,
                   updated_codeframe, excel_buffer, probes>>

\* if not response_md: continue / if df_new is None: continue
CatSkipsEmptyOnly(text, df_new) == text = <<>>

CatSkips(text, df_new) == text = <<>> \/ df_new = None

\* after the while loop: lines 740-747
CatClassify ==
    /\ view = "category_view" /\ pc = "classify"
    /\ LET qid == unique_qids[qi]
           df_new == parse_md_table(response_md)
       IN  IF CatSkips(response_md, df_new)
           THEN UNCHANGED new_dfs
           ELSE new_dfs' = DictSet(new_dfs, Str(qid), df_new)
    /\ pc' = "loop"
    /\ UNCHANGED <<inputVars, errors, unique_qids, qi, codingVars, attempt, response_md,
                   updated_codeframe, excel_buffer, probes, calls, sleeps, logVars>>

\* the three sheets written by lines 773-778, in this order
WriteExcel(codeframe) ==
    [sheet_names |-> <<"codeframe", "question", "data">>,
     codeframe |-> codeframe, question |-> question_df, data |-> data_df]

\* after the for loop: lines 749-778
MergeNewCategories ==
    /\ view = "category_view" /\ pc = "merge"
    /\ updated_codeframe' = MergeAll(updated_codeframe, new_dfs)
    /\ excel_buffer' = WriteExcel(MergeAll(updated_codeframe, new_dfs))
    /\ pc' = "returned"
    /\ UNCHANGED <<inputVars, errors, unique_qids, qi, codingVars, attempt, response_md,
                   new_dfs, probes, calls, sleeps, logVars>>

Next ==
    \/ \E r \in ProbeResponses : TestConnection(r)
    \/ LoadWorkbook
    \/ NextQuestion
    \/ \E r \in Responses : Attempt(r)
    \/ Classify
    \/ Aggregate
    \/ CatNextQuestion
    \/ \E r \in TableResponses : CatAttempt(r)
    \/ CatClassify
    \/ MergeNewCategories

Spec == Init /\ [][Next]_vars

\* ------------------------------------------------ the merge on its inputs
\* The merge of lines 749-771 started from every codebook and every reply table
\* within the bounds, and from the documented example.
DigitTok == <<"0", "1", "2", "3", "4", "5", "6", "7", "8", "9">>

\* str(n) of a non-negative integer
RECURSIVE Dec(_)
Dec(n) == IF n < 10 THEN <<DigitTok[n + 1]>> ELSE Dec(n \div 10) \o <<DigitTok[(n % 10) + 1]>>

\* the label of the i-th proposed row
TagAt(i) == <<"t">> \o Dec(i)

\* a codebook: one row of question 2, then question Q1's rows with the CodeIds of S
CodebookOf(S) ==
    <<CfRow(IntQ("2"), 2, <<"c">>)>>
    \o SeqMap(LAMBDA c : CfRow(StrQ("Q1"), c, <<"a">>),
              SelectSeq([i \in 1..MaxCid |-> i], LAMBDA i : i \in S))

MergeCodebooks == {CodebookOf(S) : S \in SUBSET (1..MaxCid)}

\* the proposals of a reply table, in the order of its lines
ProposedTables ==
    {[i \in 1..Len(c) |-> [cid |-> c[i], tag |-> TagAt(i)]] :
        c \in SeqsUpTo(1..(MaxCid + 2), MaxProposed) \ {<<>>}}

ExampleCodebook ==
    <<CfRow(StrQ("Q1"), 1, <<"a">>), CfRow(StrQ("Q1"), 2, <<"b">>),
      CfRow(StrQ("Q1"), 3, <<"c">>)>>

ExampleProposed ==
    <<[cid |-> 2, tag |-> <<"dup">>], [cid |-> 10, tag |-> <<"new-a">>],
      [cid |-> 1, tag |-> <<"dup2">>], [cid |-> 4, tag |-> <<"seq">>]>>

\* the markdown table the model returns for the proposals
TableText(proposed) ==
    MdHeader \o MdRule
    \o Flatten(SeqMap(LAMBDA r : MdLine(Dec(r.cid), <<" ">> \o r.tag), proposed))

\* the reply table of question 2 in the runs with two questions
OtherProposed == <<[cid |-> 2, tag |-> <<"x">>]>>

\* the questions of a run with their reply tables
MergeRuns ==
    {<<[qid |-> StrQ("Q1"), proposed |-> t]>> : t \in ProposedTables \cup {ExampleProposed}}
    \cup {<<[qid |-> StrQ("Q1"), proposed |-> t], [qid |-> IntQ("2"), proposed |-> OtherProposed]>> :
             t \in ProposedTables}

\* new_dfs after the for loop of a run whose calls were all answered at once
RECURSIVE CollectedTables(_)
CollectedTables(run) ==
    IF run = <<>> THEN <<>>
    ELSE DictSet(CollectedTables(SubSeq(run, 1, Len(run) - 1)),
                 Str(Last(run).qid), parse_md_table(TableText(Last(run).proposed)))

InitMerge ==
    /\ view = "category_view" /\ pc = "merge"
    /\ workbook = [sheet_names |-> RequiredSheets, codeframe_cols |-> TRUE,
                   question_cols |-> TRUE, data_cols |-> TRUE]
    /\ codeframe_df \in MergeCodebooks \cup {ExampleCodebook}
    /\ \E run \in MergeRuns :
          /\ question_df = SeqMap(LAMBDA q : q.qid, run)
          /\ data_df = DataOf(SeqMap(LAMBDA q : q.qid, run))
          /\ unique_qids = SeqMap(LAMBDA q : q.qid, run)
          /\ qi = Len(run)
          /\ response_md = TableText(Last(run).proposed)
          /\ new_dfs = CollectedTables(run)
          /\ calls = Len(run)
    /\ updated_codeframe = codeframe_df /\ excel_buffer = NoWorkbook
    /\ errors = NoError
    /\ retries = 0 /\ success = FALSE /\ output = <<>>
    /\ fail_qids = <<>> /\ processed_qids = <<>> /\ dfs = <<>> /\ df_parsed = EmptyFrame
    /\ merged_df = EmptyFrame /\ df_codeframe = <<>> /\ binary_df = NoTable
    /\ attempt = 1 /\ probes = 1 /\ sleeps = <<>>
    /\ qcalls = 1 /\ net_only = FALSE /\ responded = 1

NextMerge == MergeNewCategories

SpecMerge == InitMerge /\ [][NextMerge]_vars

\* ------------------------------------------------ the parse on its inputs
\* Lines 398-407 (parse_output and what the loop does with its frame) for one
\* question whose call succeeded, from every reply within the bound.
ReplyChars == {"1", "2", ",", ";", " ", "a"}

ParseTexts == SeqsUpTo(ReplyChars, MaxReplyLen) \cup ReplyTexts \cup {T_example, T_wide}

InitParse ==
    /\ view = "coding_view" /\ pc = "classify"
    /\ workbook = [sheet_names |-> RequiredSheets, codeframe_cols |-> TRUE,
                   question_cols |-> TRUE, data_cols |-> TRUE]
    /\ \E qid \in QIDs :
          /\ question_df = <<qid>> /\ unique_qids = <<qid>>
          /\ data_df = DataOf(<<qid>>)
    /\ codeframe_df = <<>>
    /\ output \in ParseTexts
    /\ qi = 1 /\ retries = 0 /\ success = TRUE
    /\ errors = NoError
    /\ fail_qids = <<>> /\ processed_qids = <<>> /\ dfs = <<>> /\ df_parsed = EmptyFrame
    /\ merged_df = EmptyFrame /\ df_codeframe = <<>> /\ binary_df = NoTable
    /\ attempt = 0 /\ response_md = <<>> /\ new_dfs = <<>>
    /\ updated_codeframe = <<>> /\ excel_buffer = NoWorkbook
    /\ probes = 1 /\ calls = 1 /\ sleeps = <<>>
    /\ qcalls = 1 /\ net_only = FALSE /\ responded = 1

NextParse == Classify

SpecParse == InitParse /\ [][NextParse]_vars

\* ------------------------------------------ the aggregation on its inputs
\* Lines 409-454 after runs of one or two questions whose calls succeeded, the first
\* with every reply built from the segments below.
SegIds == {<<"1">>, <<"2">>, <<"a">>}

CodeLists == {<<>>, <<"5">>, <<"5", "5">>, <<"5", "7">>, <<"7">>}

\* a segment as the model writes it: the id and its codes, comma-separated
SegText(id, codes) ==
    IF codes = <<>> THEN id \o <<",">>
    ELSE id \o Flatten([i \in 1..Len(codes) |-> <<",", codes[i]>>])

SegTexts == {SegText(id, codes) : id \in SegIds, codes \in CodeLists}

RECURSIVE JoinSegs(_)
JoinSegs(segs) ==
    IF Len(segs) = 1 THEN segs[1] ELSE Head(segs) \o <<";">> \o JoinSegs(Tail(segs))

AggReplies == {JoinSegs(segs) : segs \in SeqsUpTo(SegTexts, MaxSegments) \ {<<>>}}

\* "1,5;1,7": respondent 1 in two segments
T_twice == <<"1", ",", "5", ";", "1", ",", "7">>

SecondReplies == {T_two, T_one, T_word, T_twice}

AggRuns ==
    {<<[qid |-> StrQ("Q1"), text |-> t]>> : t \in AggReplies}
    \cup {<<[qid |-> StrQ("Q1"), text |-> t], [qid |-> IntQ("2"), text |-> u]>> :
             t \in AggReplies, u \in SecondReplies}

\* fail_qids, processed_qids and dfs after the for loop of a run
RECURSIVE CollectedFrames(_)
CollectedFrames(run) ==
    IF run = <<>> THEN [fail |-> <<>>, processed |-> <<>>, frames |-> <<>>]
    ELSE LET before == CollectedFrames(SubSeq(run, 1, Len(run) - 1))
             qid == Last(run).qid
             parsed == parse_output(Last(run).text, qid)
         IN  IF Retains(TRUE, Last(run).text, parsed)
             THEN [before EXCEPT !.processed = Append(@, qid), !.frames = Append(@, parsed)]
             ELSE [before EXCEPT !.fail = Append(@, qid)]

SummaryCodebook == <<CfRow(StrQ("Q1"), 5, <<"a">>), CfRow(IntQ("2"), 7, <<"b">>)>>

InitAggregate ==
    /\ view = "coding_view" /\ pc = "aggregate"
    /\ workbook = [sheet_names |-> RequiredSheets, codeframe_cols |-> TRUE,
                   question_cols |-> TRUE, data_cols |-> TRUE]
    /\ codeframe_df = SummaryCodebook
    /\ \E run \in AggRuns :
          /\ question_df = SeqMap(LAMBDA q : q.qid, run)
          /\ unique_qids = SeqMap(LAMBDA q : q.qid, run)
          /\ data_df = DataOf(SeqMap(LAMBDA q : q.qid, run))
          /\ qi = Len(run) /\ calls = Len(run)
          /\ output = Last(run).text
          /\ df_parsed = parse_output(Last(run).text, Last(run).qid)
          /\ fail_qids = CollectedFrames(run).fail
          /\ processed_qids = CollectedFrames(run).processed
          /\ dfs = CollectedFrames(run).frames
    /\ retries = 0 /\ success = TRUE
    /\ errors = NoError
    /\ merged_df = EmptyFrame /\ df_codeframe = <<>> /\ binary_df = NoTable
    /\ attempt = 0 /\ response_md = <<>> /\ new_dfs = <<>>
    /\ updated_codeframe = <<>> /\ excel_buffer = NoWorkbook
    /\ probes = 1 /\ sleeps = <<>>
    /\ qcalls = 1 /\ net_only = FALSE /\ responded = 1

NextAggregate == Aggregate

SpecAggregate == InitAggregate /\ [][NextAggregate]_vars

\* ------------------------------------------------------------ properties
Coding == view = "coding_view"

Category == view = "category_view"

\* the while loop of question qi is over
LoopOver == qi > 0 /\ pc \in {"classify", "loop", "aggregate", "merge", "returned"}

\* question qi has been through the lines after its while loop
Classified == qi > 0 /\ pc \in {"loop", "aggregate", "merge", "returned"}

Repeat(x, n) == [i \in 1..n |-> x]

\* C1: in both views a failed connectivity probe ends the run with the connection
\* error, and no completion call for a question is ever made.
C1_ProbeFailureAborts ==
    errors.kind = "connection" =>
        /\ pc = "returned"
        /\ probes = 1
        /\ calls = 0 /\ qcalls = 0
        /\ qi = 0 /\ unique_qids = <<>>

C1_Witness == Category /\ errors.kind = "connection" /\ pc = "returned" /\ probes = 1

\* C2: coding view, every attempt of a question raised RequestException: 6 attempts,
\* 5 sleeps of 10 (none after the sixth attempt), and the question is on the fail-list.
C2_CodingExhaustion ==
    (Coding /\ LoopOver /\ net_only) =>
        /\ qcalls = 6
        /\ sleeps = Repeat(10, 5)
        /\ (Classified => fail_qids # <<>> /\ Last(fail_qids) = unique_qids[qi])
        /\ (Classified => unique_qids[qi] \notin Range(processed_qids))

C2_Witness ==
    /\ Coding /\ Classified /\ net_only /\ qcalls = 6 /\ retries = 6
    /\ Last(fail_qids) = unique_qids[qi]

\* C3: category view, every attempt of a question raised RequestException: 5 attempts
\* and 4 sleeps of 5, none after the last attempt.
C3_CategoryExhaustion ==
    (Category /\ LoopOver /\ net_only) =>
        /\ qcalls = 5
        /\ sleeps = Repeat(5, 4)

\* C4: coding view: the attempts of a question stop at the first response that is
\* not a caught error, whatever its text; only caught errors lead to another
\* attempt; the attempts number the index of the first response, at most 6.
C4_CodingStopsAtFirstResponse ==
    Coding =>
        /\ qcalls <= 6
        /\ responded <= 1
        /\ qcalls = retries + responded
        /\ (responded = 1 => pc # "call")
        /\ (LoopOver /\ responded = 0 => qcalls = 6)
        /\ (pc = "call" => qcalls < 6)

C4_Witness ==
    /\ Coding /\ pc = "classify" /\ responded = 1 /\ qcalls = 3
    /\ output \in {<<>>, ForbiddenHtml}

Blocked(text) == \E i \in 1..Len(text) : text[i] \in {"Forbidden", "API error"}

C7_NoQuestionAbortsRun ==
    (Coding /\ pc \in {"returned", "crashed"} /\ errors.kind \in {"none", "no_data"}) =>
        /\ pc = "returned"
        /\ \A i \in 1..Len(unique_qids) :
               unique_qids[i] \in Range(fail_qids) \cup Range(processed_qids)

\* C8: coding view: a question on the fail-list has no column in the triple table,
\* no row in the codeframe summary and no column in the binary table.
C8_FailedExcluded ==
    (Coding /\ pc = "returned") =>
        \A f \in Range(fail_qids) :
            /\ \A j \in 1..Len(merged_df.columns) : merged_df.columns[j].qid # Str(f)
            /\ \A j \in 1..Len(df_codeframe) : df_codeframe[j].QID # f
            /\ \A j \in 1..Len(binary_df.columns) : binary_df.columns[j].qid # Str(f)

C8_Witness ==
    /\ Coding /\ pc = "returned" /\ qi = 2
    /\ fail_qids = <<unique_qids[2]>> /\ processed_qids = <<unique_qids[1]>>
    /\ Blocked(output) /\ parse_output(output, unique_qids[2]).rows # <<>>
    /\ merged_df.columns # <<>> /\ df_codeframe # <<>> /\ binary_df.columns # <<>>

\* C9: coding view, after the loop over the questions: with no processed question the
\* run ends with the "no data" error and no table; with at least one the three
\* tables are there, also when other questions failed.
C9_NoDataOrTables ==
    (Coding /\ pc = "returned" /\ errors.kind \notin {"connection", "config"}) =>
        /\ processed_qids = <<>> =>
               /\ errors.kind = "no_data"
               /\ merged_df = EmptyFrame /\ df_codeframe = <<>> /\ binary_df = NoTable
        /\ processed_qids # <<>> =>
               /\ errors = NoError
               /\ merged_df.hasID /\ merged_df.rows # <<>>
               /\ Len(merged_df.columns) = SeqSum([i \in 1..Len(dfs) |-> Len(dfs[i].columns)])
               /\ binary_df.rows # <<>>

C9_Witness ==
    /\ Coding /\ pc = "returned" /\ errors = NoError
    /\ Len(processed_qids) = 1 /\ Len(fail_qids) = 1
    /\ merged_df.rows # <<>>

\* two rows of a codebook name the same question and the same CID
SamePair(r1, r2) == Str(r1.QID) = Str(r2.QID) /\ r1.CID = r2.CID

UniquePairs(codeframe) ==
    \A i, j \in 1..Len(codeframe) : i # j => ~SamePair(codeframe[i], codeframe[j])

\* C10: category view: when the (QID, CID) pairs of the input codebook are unique,
\* those of the updated codebook are unique too.
C10_MergeKeepsPairsUnique ==
    (Category /\ pc = "returned" /\ UniquePairs(codeframe_df)) =>
        UniquePairs(updated_codeframe)

\* the rows the merge appended to the codebook
Accepted == SubSeq(updated_codeframe, Len(codeframe_df) + 1, Len(updated_codeframe))

CidTag(rows) == SeqMap(LAMBDA r : <<r.CID, r.Tag>>, rows)

\* the merge has run on the example: CodeIds {1,2,3} of Q1 and the four proposals
ExampleRun ==
    /\ Category /\ pc = "returned" /\ errors = NoError
    /\ codeframe_df = ExampleCodebook
    /\ new_dfs = <<[key |-> StrQ("Q1"), rows |-> ExampleProposed]>>

\* C11 as stated: on the example the merge accepts exactly (10, "new-a") and (5, "seq")
C11_MergeExampleAsStated ==
    ExampleRun => CidTag(Accepted) = <<<<10, <<"new-a">>>>, <<5, <<"seq">>>>>>

\* C11: on the example the merge accepts exactly (10, "new-a") and (11, "seq"):
\* 2 and 1 are in the codebook and are discarded, 10 is above the maximum 3 and is
\* kept, and 4, not above the maximum that 10 raised, becomes 10 + 1
C11_MergeExample ==
    ExampleRun => CidTag(Accepted) = <<<<10, <<"new-a">>>>, <<11, <<"seq">>>>>>

C11_Witness == ExampleRun /\ Len(Accepted) = 2 /\ Accepted[1].CID = 10

\* the category view has merged and written the workbook
Merged == Category /\ pc = "returned" /\ errors = NoError

\* a is b with some elements left out
RECURSIVE IsSubSeq(_, _)
IsSubSeq(a, b) ==
    IF a = <<>> THEN TRUE
    ELSE IF b = <<>> THEN FALSE
    ELSE IF Head(a) = Head(b) THEN IsSubSeq(Tail(a), Tail(b))
    ELSE IsSubSeq(a, Tail(b))

\* (question, label) of every proposal of the collected tables, table after table
AllProposals(items) ==
    Flatten(SeqMap(LAMBDA it : SeqMap(LAMBDA p : <<it.key, p.tag>>, it.rows), items))

\* the rows of the written codebook after those of the input codebook
WrittenNew ==
    SubSeq(excel_buffer.codeframe, Len(codeframe_df) + 1, Len(excel_buffer.codeframe))

\* C12: the workbook the category view writes holds the question sheet and the data
\* sheet as uploaded, and a codebook that is the uploaded codebook, row for row,
\* followed by the new rows: each new row is a proposal of the reply tables (its
\* question and label, in the tables' order) with a CodeId and no Description.
C12_InputsKept ==
    Merged =>
        /\ excel_buffer.question = question_df
        /\ excel_buffer.data = data_df
        /\ excel_buffer.codeframe = updated_codeframe
        /\ Len(excel_buffer.codeframe) >= Len(codeframe_df)
        /\ SubSeq(excel_buffer.codeframe, 1, Len(codeframe_df)) = codeframe_df
        /\ IsSubSeq(SeqMap(LAMBDA r : <<r.QID, r.Tag>>, WrittenNew), AllProposals(new_dfs))
        /\ \A i \in 1..Len(WrittenNew) :
              WrittenNew[i].Description = NaN /\ WrittenNew[i].CID \in Nat \ {0}

\* a run that kept three codebook rows and added rows for two questions
C12_Witness ==
    /\ Merged /\ Len(codeframe_df) = 3 /\ data_df.rows # <<>>
    /\ Len(new_dfs) = 2 /\ Len(WrittenNew) >= 2

\* parse_output has returned the frame of the reply to question qi
Parsed == Coding /\ Classified /\ ~CallFailed(success, output)

IDs(frame) == SeqMap(LAMBDA r : r.ID, frame.rows)

\* C13: the frame of "1,5,7;2,5;abc;3," for Q1 has the columns ID, Q1_1, Q1_2 and
\* exactly the rows of respondents 1 and 2: the segment "3,", which has an id and no
\* code, gives no row, and every row carries at least one code.
C13_CodelessSegmentDropped ==
    (Parsed /\ output = T_example /\ unique_qids[qi] = StrQ("Q1")) =>
        /\ df_parsed.columns = <<ColName(StrQ("Q1"), 1), ColName(StrQ("Q1"), 2)>>
        /\ IDs(df_parsed) = <<1, 2>>
        /\ \A i \in 1..Len(df_parsed.rows) :
              \E j \in 1..Len(df_parsed.columns) : df_parsed.rows[i].cells[j] # NaN

\* the first comma-separated field of every segment of a text, trimmed
FirstFields(text) == {Strip(Split(seg, ",")[1]) : seg \in Range(Split(text, ";"))}

AllDigits(f) == f # <<>> /\ \A i \in 1..Len(f) : f[i] \in Digits

\* C14: every row of the frame has a numeric ID, and that ID is the value of the
\* first field of some segment of the reply text that coerces to a number.
C14_IdsAreNumericFirstFields ==
    Parsed =>
        \A i \in 1..Len(df_parsed.rows) :
            /\ df_parsed.rows[i].ID \in Nat
            /\ \E f \in FirstFields(output) :
                  AllDigits(f) /\ NumVal(f) = df_parsed.rows[i].ID

\* "a,5,7;1,5": the segment of "a" gives no row, that of 1 does
C14_Witness == Parsed /\ output = T_wide /\ IDs(df_parsed) = <<1>>

NonBlank(row) == Cardinality({j \in 1..Len(row.cells) : row.cells[j] # NaN})

\* C15: a frame with rows has as many code columns as the largest number of codes
\* of one of its rows: every row fills the leading cells of its codes and leaves
\* the rest empty, and some row fills the last column.
C15_ColumnsAreMaxOfRows ==
    (Parsed /\ ~FrameEmpty(df_parsed)) =>
        LET n == Len(df_parsed.columns)
        IN  /\ \A i \in 1..Len(df_parsed.rows) :
                  /\ Len(df_parsed.rows[i].cells) = n
                  /\ \A j \in 1..n : j <= NonBlank(df_parsed.rows[i])
                                        <=> df_parsed.rows[i].cells[j] # NaN
            /\ n > 0 => \E i \in 1..Len(df_parsed.rows) : df_parsed.rows[i].cells[n] # NaN

\* a reply without a valid row: no segment has two fields and a numeric first field
ZeroValidRows(text) ==
    \A seg \in Range(Split(text, ";")) :
        Len(Split(seg, ",")) < 2 \/ ~AllDigits(Strip(Split(seg, ",")[1]))

\* C16: when the call succeeded with a reply without a valid row, the frame
\* parse_output returns is empty and the question is on the fail-list, not among
\* the processed ones.
C16_NoRowsMeansFailed ==
    (Coding /\ Classified /\ success /\ ZeroValidRows(output)) =>
        /\ ~CallFailed(success, output) => FrameEmpty(df_parsed)
        /\ fail_qids # <<>> /\ Last(fail_qids) = unique_qids[qi]
        /\ unique_qids[qi] \notin Range(processed_qids)

\* "a,5": a frame with a code column and no row
C16_Witness ==
    /\ Parsed /\ output = T_nonnum /\ ZeroValidRows(output)
    /\ df_parsed.hasID /\ df_parsed.columns # <<>> /\ df_parsed.rows = <<>>
    /\ fail_qids = unique_qids

\* the coding view has built its tables
Aggregated == Coding /\ pc = "returned" /\ errors = NoError /\ dfs # <<>>

\* every row of every retained frame carries a code
EveryRowCoded ==
    \A k \in 1..Len(dfs) : \A i \in 1..Len(dfs[k].rows) :
        \E j \in 1..Len(dfs[k].columns) : dfs[k].rows[i].cells[j] # NaN

\* C17: the rows of the TripleTable are in strictly ascending order of ID, so no ID
\* is on two rows (stated for the runs whose frame rows all carry a code).
C17_StrictlyAscendingIds ==
    (Aggregated /\ EveryRowCoded) =>
        \A i \in 1..(Len(merged_df.rows) - 1) : merged_df.rows[i].ID < merged_df.rows[i + 1].ID

\* the cells of a TripleTable row that belong to the columns of the k-th frame
CellsOf(row, k) ==
    LET off == SeqSum([m \in 1..(k - 1) |-> Len(dfs[m].columns)])
    IN  SubSeq(row.cells, off + 1, off + Len(dfs[k].columns))

IdSet(frame) == {frame.rows[i].ID : i \in 1..Len(frame.rows)}

\* C18: the TripleTable is the outer join of the retained frames on ID, ascending:
\* its columns are the frames' columns in order, its IDs are the union of the frames'
\* IDs, every frame row is in it, and on each of its rows the cells of a question are
\* those of a row of that question's frame with the same ID, or empty when the frame
\* has no row of that ID.
C18_OuterJoin ==
    Aggregated =>
        /\ merged_df.columns = Flatten([k \in 1..Len(dfs) |-> dfs[k].columns])
        /\ IdSet(merged_df) = UNION {IdSet(dfs[k]) : k \in 1..Len(dfs)}
        /\ \A i \in 1..(Len(merged_df.rows) - 1) :
              merged_df.rows[i].ID <= merged_df.rows[i + 1].ID
        /\ \A k \in 1..Len(dfs) :
              /\ \A j \in 1..Len(dfs[k].rows) :
                    \E i \in 1..Len(merged_df.rows) :
                        /\ merged_df.rows[i].ID = dfs[k].rows[j].ID
                        /\ CellsOf(merged_df.rows[i], k) = dfs[k].rows[j].cells
              /\ \A i \in 1..Len(merged_df.rows) :
                    IF merged_df.rows[i].ID \in IdSet(dfs[k])
                    THEN \E j \in 1..Len(dfs[k].rows) :
                            /\ merged_df.rows[i].ID = dfs[k].rows[j].ID
                            /\ CellsOf(merged_df.rows[i], k) = dfs[k].rows[j].cells
                    ELSE CellsOf(merged_df.rows[i], k) = NaNs(Len(dfs[k].columns))

\* two frames with code columns; respondent 1 is only in the second, 2 in both
C18_Witness ==
    /\ Aggregated /\ Len(dfs) = 2
    /\ IdSet(dfs[1]) = {2} /\ IdSet(dfs[2]) = {1, 2}
    /\ dfs[1].columns # <<>>
    /\ merged_df.rows[1].ID = 1
    /\ CellsOf(merged_df.rows[1], 1) = NaNs(Len(dfs[1].columns))

\* the respondents of a frame who have a code among their cells
RespondentsOf(frame, code) ==
    {frame.rows[i].ID : i \in {i \in 1..Len(frame.rows) :
                                   \E j \in 1..Len(frame.columns) : frame.rows[i].cells[j] = code}}

CodesOf(frame) ==
    {frame.rows[i].cells[j] : i \in 1..Len(frame.rows), j \in 1..Len(frame.columns)} \ {NaN}

\* C19: the CodebookSummary has exactly one row for each code of each retained
\* frame, and none else, and the Count of a row is the number of distinct
\* respondents of that frame who have the code.
C19_CountsDistinctRespondents ==
    Aggregated =>
        /\ \A k \in 1..Len(dfs) : \A code \in CodesOf(dfs[k]) :
              \E i \in 1..Len(df_codeframe) :
                  /\ df_codeframe[i].QID = processed_qids[k] /\ df_codeframe[i].Code = code
                  /\ df_codeframe[i].Count = Cardinality(RespondentsOf(dfs[k], code))
                  /\ \A m \in 1..Len(df_codeframe) :
                        (df_codeframe[m].QID = processed_qids[k] /\ df_codeframe[m].Code = code)
                            => m = i
        /\ \A i \in 1..Len(df_codeframe) :
              \E k \in 1..Len(dfs) :
                  df_codeframe[i].QID = processed_qids[k] /\ df_codeframe[i].Code \in CodesOf(dfs[k])

\* C20: the Ratio of every CodebookSummary row is its Count over the number n of
\* distinct IDs of the TripleTable, which is k / n for a code assigned to k of the n
\* respondents and so at most 1; with n = 0 it is 0.
C20_RatioIsShare ==
    Aggregated =>
        LET n == Cardinality(IdSet(merged_df))
        IN  \A i \in 1..Len(df_codeframe) :
                IF n = 0 THEN df_codeframe[i].Ratio.num = 0
                ELSE /\ df_codeframe[i].Ratio = [num |-> df_codeframe[i].Count, den |-> n]
                     /\ df_codeframe[i].Ratio.num <= df_codeframe[i].Ratio.den

\* the codeframe entries of a question and a code id
EntriesOf(qid, code) ==
    {i \in 1..Len(codeframe_df) :
        /\ codeframe_df[i].QID = qid
        /\ AllDigits(code) /\ codeframe_df[i].CID = NumVal(code)}

\* C21: the Tag of a CodebookSummary row is the Tag of the codeframe entry of the
\* row's question whose CID is the row's code, and is empty only when the
\* codeframe has no such entry.
C21_LabelOfQuestionAndCode ==
    Aggregated =>
        \A i \in 1..Len(df_codeframe) :
            LET hits == EntriesOf(df_codeframe[i].QID, df_codeframe[i].Code)
            IN  IF hits = {} THEN df_codeframe[i].Tag = <<>>
                ELSE \E h \in hits : df_codeframe[i].Tag = codeframe_df[h].Tag

\* C22: the BinaryTable has one row for each distinct ID of the TripleTable, in
\* ascending order, and one column "{QID}-{code}" for each code of each retained
\* frame; a cell is 1 when the frame of the column's question gives the row's
\* respondent the column's code, and is empty (never 0) otherwise.
C22_BinaryTable ==
    Aggregated =>
        /\ {binary_df.rows[i].ID : i \in 1..Len(binary_df.rows)} = IdSet(merged_df)
        /\ \A i \in 1..(Len(binary_df.rows) - 1) :
              binary_df.rows[i].ID < binary_df.rows[i + 1].ID
        /\ \A k \in 1..Len(dfs) : \A code \in CodesOf(dfs[k]) :
              \E j \in 1..Len(binary_df.columns) :
                  /\ binary_df.columns[j] = [qid |-> Str(processed_qids[k]), sep |-> "-", code |-> code]
                  /\ \A m \in 1..Len(binary_df.columns) :
                        binary_df.columns[m] = binary_df.columns[j] => m = j
        /\ \A j \in 1..Len(binary_df.columns) :
              \E k \in 1..Len(dfs) :
                  /\ binary_df.columns[j].qid = Str(processed_qids[k])
                  /\ binary_df.columns[j].sep = "-"
                  /\ binary_df.columns[j].code \in CodesOf(dfs[k])
                  /\ \A i \in 1..Len(binary_df.rows) :
                        binary_df.rows[i].cells[j] =
                            IF binary_df.rows[i].ID \in RespondentsOf(dfs[k], binary_df.columns[j].code)
                            THEN "1" ELSE "NA"

\* two questions, a respondent with a code of the first question and none of the second
C22_Witness ==
    /\ Aggregated /\ Len(dfs) = 2 /\ Len(binary_df.columns) >= 3
    /\ \E i \in 1..Len(binary_df.rows) :
          /\ binary_df.rows[i].cells[1] = "1"
          /\ binary_df.rows[i].cells[Len(binary_df.columns)] = "NA"

\* the data rows of a reply table: the cells of the lines after the header and the rule
DataRowsOf(md_table) ==
    LET lines == Lines(md_table)
    IN  IF Len(lines) < 2 THEN <<>>
        ELSE SeqMap(Cells, SubSeq(lines, IF Contains(lines[2], "---") THEN 3 ELSE 2, Len(lines)))

HeaderOf(md_table) == IF Lines(md_table) = <<>> THEN <<>> ELSE Cells(Lines(md_table)[1])

\* some data row has not as many cells as the header
Ragged(md_table) ==
    LET rows == DataRowsOf(md_table)
        width == Len(HeaderOf(md_table))
    IN  \E i \in 1..Len(rows) : Len(rows[i]) # width

\* the table kept for question qi, None if it has none
TableOfQi ==
    LET hits == {i \in 1..Len(new_dfs) : new_dfs[i].key = Str(unique_qids[qi])}
    IN  IF hits = {} THEN None ELSE new_dfs[CHOOSE i \in hits : TRUE].rows

CatParsed == Category /\ Classified /\ errors = NoError

\* C23 as stated: a reply table with a data row that has not as many cells as the
\* header gives no table for its question.
C23_RaggedTableRejected ==
    (CatParsed /\ Ragged(response_md)) => TableOfQi = None

\* C23: a data row that has not as many cells as the header is left out, and the
\* table of the question is built from the other data rows: under the expected
\* header it is the rows with two cells and a numeric code, in their order, and
\* there is no table only when there is no such row.
C23_RaggedRowsSkipped ==
    (CatParsed /\ Ragged(response_md) /\ HeaderOf(response_md) = expected_cols) =>
        LET good == SelectSeq(DataRowsOf(response_md),
                              LAMBDA c : Len(c) = 2 /\ AllDigits(c[1]))
        IN  /\ Len(TableOfQi) = Len(good)
            /\ \A i \in 1..Len(good) :
                  TableOfQi[i] = [cid |-> NumVal(good[i][1]), tag |-> good[i][2]]

\* a table with a row of three cells and a row of two has given a table of one row
C23_Witness ==
    /\ CatParsed /\ Ragged(response_md) /\ HeaderOf(response_md) = expected_cols
    /\ Len(DataRowsOf(response_md)) = 2
    /\ Len(TableOfQi) = 1

\* the structural requirements a workbook violates: a required sheet that is missing,
\* a sheet that is there without its required columns
Violations(wb) ==
    {<<sh, "sheet">> : sh \in RequiredSheets \ wb.sheet_names}
    \cup {<<sh, "columns">> : sh \in {t \in wb.sheet_names :
                                        \/ t = "codeframe" /\ ~wb.codeframe_cols
                                        \/ t = "question" /\ ~wb.question_cols
                                        \/ t = "data" /\ ~wb.data_cols}}

\* the violations an error message names
Listed(e) ==
    IF e.what = "sheets" THEN {<<sh, "sheet">> : sh \in e.missing}
    ELSE {<<e.what, "columns">>}

\* C24: a run that ends with a configuration error names every structural
\* requirement the workbook violates, and has made no completion call.
C24_EveryViolationListed ==
    (pc = "returned" /\ errors.kind = "config") =>
        /\ Listed(errors) = Violations(workbook)
        /\ calls = 0 /\ qcalls = 0

\* the CodeIds the uploaded codebook has for the question printed as key
PreMergeCids(key) ==
    {codeframe_df[i].CID : i \in {i \in 1..Len(codeframe_df) : Str(codeframe_df[i].QID) = key}}

SetMax(S) == IF S = {} THEN 0 ELSE CHOOSE m \in S : \A x \in S : x <= m

\* the rows the written codebook has got for the question printed as key, in order
AcceptedFor(key) == SelectSeq(WrittenNew, LAMBDA r : r.QID = key)

\* the merge rule: a present CodeId is discarded, one above max_cid is kept and
\* becomes max_cid, any other gets max_cid + 1
RECURSIVE RuleRows(_, _, _)
RuleRows(proposed, present, max_cid) ==
    IF proposed = <<>> THEN <<>>
    ELSE LET cid == Head(proposed).cid
         IN  IF cid \in present THEN RuleRows(Tail(proposed), present, max_cid)
             ELSE IF cid > max_cid
                  THEN <<<<cid, Head(proposed).tag>>>> \o RuleRows(Tail(proposed), present, cid)
                  ELSE <<<<max_cid + 1, Head(proposed).tag>>>>
                       \o RuleRows(Tail(proposed), present, max_cid + 1)

\* C25: for each question with a reply table, the rows added to the codebook are those
\* of the merge rule applied to the table's rows in order, starting from the CodeIds
\* the codebook has for that question and from their maximum (0 if there is none).
C25_MergeRule ==
    Merged =>
        \A i \in 1..Len(new_dfs) :
            SeqMap(LAMBDA r : <<r.CID, r.Tag>>, AcceptedFor(new_dfs[i].key))
            = RuleRows(new_dfs[i].rows, PreMergeCids(new_dfs[i].key),
                       SetMax(PreMergeCids(new_dfs[i].key)))

\* a reply table has been kept under the key
HasTable(key) == \E i \in 1..Len(new_dfs) : new_dfs[i].key = key

\* question qi of the discovery loop got no usable reply: every attempt was caught,
\* or the reply is empty or blocked, or the parser rejects it
Unusable ==
    \/ responded = 0
    \/ response_md = <<>>
    \/ parse_md_table(response_md) = None

\* C26: a discovery question with no usable reply is skipped silently: no table is
\* kept for it and the written codebook gets no row for it, there is no fail-list
\* and no error, the view does not end before the last question, and the tables of
\* the other questions are merged.
C26_SilentSkip ==
    Category =>
        /\ fail_qids = <<>> /\ pc # "crashed"
        /\ (qi > 0 => errors = NoError)
        /\ (pc \in {"merge", "returned"} /\ errors = NoError => qi = Len(unique_qids))
        /\ (Classified /\ Unusable => ~HasTable(Str(unique_qids[qi])))
        /\ \A i \in 1..Len(new_dfs) : \E k \in 1..qi : new_dfs[i].key = Str(unique_qids[k])
        /\ (Merged =>
              \A k \in 1..Len(unique_qids) :
                  IF HasTable(Str(unique_qids[k]))
                  THEN \E i \in 1..Len(new_dfs) :
                          /\ new_dfs[i].key = Str(unique_qids[k])
                          /\ Len(AcceptedFor(new_dfs[i].key))
                             = Cardinality({j \in 1..Len(new_dfs[i].rows) :
                                              new_dfs[i].rows[j].cid
                                                  \notin ExistingCids(codeframe_df, new_dfs[i].key)})
                  ELSE AcceptedFor(Str(unique_qids[k])) = <<>>)

\* the first of two questions was skipped, the second got its rows
C26_Witness ==
    /\ Merged /\ Len(unique_qids) = 2
    /\ ~HasTable(Str(unique_qids[1]))
    /\ AcceptedFor(Str(unique_qids[1])) = <<>>
    /\ AcceptedFor(Str(unique_qids[2])) # <<>>

\* the coding view is past the validation of the workbook
InLoop == Coding /\ pc \notin {"probe", "load"} /\ errors.kind \notin {"connection", "config"}

\* the coding view has ended, by a response or by an exception
Ended == InLoop /\ pc \in {"returned", "crashed"}

\* the number of questions that are on one of the two lists
Handled == Len(processed_qids) + Len(fail_qids)

\* the distinct QIDs of the question sheet in the order of their first rows
FirstSeen(column) ==
    LET first == {i \in 1..Len(column) :
                     column[i] # NoQid /\ \A j \in 1..(i - 1) : column[j] # column[i]}
    IN  SeqMap(LAMBDA i : column[i], SelectSeq([i \in 1..Len(column) |-> i], LAMBDA i : i \in first))

\* C27: the coding view goes through the distinct QIDs of the question sheet in the
\* order of their first rows, one at a time: the questions on the two lists are the
\* first ones of that order, each once, both lists are in that order, the question
\* being called is the next one, and when the view ends every question is on a list.
C27_EachQuestionOnceInOrder ==
    InLoop =>
        /\ unique_qids = FirstSeen(question_df)
        /\ IsSubSeq(processed_qids, unique_qids) /\ IsSubSeq(fail_qids, unique_qids)
        /\ Range(processed_qids) \cup Range(fail_qids) = Range(SubSeq(unique_qids, 1, Handled))
        /\ Handled = IF Classified THEN qi ELSE IF qi = 0 THEN 0 ELSE qi - 1
        /\ (qcalls > 0 => qi > 0)
        /\ (Ended => Handled = Len(unique_qids))

\* the state of the k-th question: DONE with a retained frame, FAILED, or on the way
StateOf(k) ==
    IF unique_qids[k] \in Range(processed_qids) THEN "DONE"
    ELSE IF unique_qids[k] \in Range(fail_qids) THEN "FAILED"
    ELSE IF k > qi THEN "PENDING"
    ELSE IF pc = "call" /\ qcalls = 0 THEN "PROMPTED"
    ELSE IF pc = "classify" /\ ~CallFailed(success, output) THEN "PARSED"
    ELSE "CALLED"

\* C28: a question the loop has passed is DONE or FAILED and not both, a question the
\* loop has not reached is PENDING, and when the view ends every question is DONE or
\* FAILED: the two lists are disjoint, they cover the distinct QIDs, and the i-th
\* retained frame is the frame of the i-th processed question.
C28_DoneOrFailed ==
    InLoop =>
        /\ Range(processed_qids) \cap Range(fail_qids) = {}
        /\ \A k \in 1..Len(unique_qids) :
              /\ (k < qi \/ (k = qi /\ Classified)) => StateOf(k) \in {"DONE", "FAILED"}
              /\ k > qi => StateOf(k) = "PENDING"
        /\ Len(dfs) = Len(processed_qids)
        /\ \A i \in 1..Len(dfs) :
              /\ ~FrameEmpty(dfs[i])
              /\ \A j \in 1..Len(dfs[i].columns) : dfs[i].columns[j].qid = Str(processed_qids[i])
        /\ (Ended => \A k \in 1..Len(unique_qids) : StateOf(k) \in {"DONE", "FAILED"})

\* C28, the order of the states: a question that is DONE or FAILED stays so, the
\* lists only grow at their end, and a question becomes DONE only from PARSED.
C28_StatesOnlyAdvance ==
    [][InLoop =>
        /\ IsSubSeq(processed_qids, processed_qids') /\ IsSubSeq(fail_qids, fail_qids')
        /\ Len(processed_qids') <= Len(processed_qids) + 1
        /\ (processed_qids' # processed_qids =>
               /\ StateOf(qi) = "PARSED"
               /\ processed_qids' = Append(processed_qids, unique_qids[qi])
               /\ fail_qids' = fail_qids)]_vars

\* the view has ended, by a response or by an exception
Done == pc \in {"returned", "crashed"}

\* the attempts a question may take in the view
Budget == IF Coding THEN max_retries ELSE max_attempts

\* the calls of the run stay within the probe and the budget of each question, and a
\* question whose budget is used up is not called again
CallsBounded ==
    /\ probes <= 1
    /\ qcalls <= Budget
    /\ (pc = "call" => qcalls < Budget)
    /\ calls <= Budget * Len(unique_qids)
    /\ probes + calls <= 1 + Budget * Len(unique_qids)
    /\ (qi > 0 => calls <= Budget * (qi - 1) + qcalls)

\* a bound on the steps the view has still to take: a question takes the loop header,
\* at most Budget calls and the lines after the while loop
StepsLeft ==
    LET after(n) == 2 + n * (Budget + 2)
    IN  CASE pc = "probe" -> after(Len(question_df)) + 2
          [] pc = "load" -> after(Len(question_df)) + 1
          [] pc = "loop" -> after(Len(unique_qids) - qi)
          [] pc = "call" -> after(Len(unique_qids) - qi) + 1 + (Budget - qcalls)
          [] pc = "classify" -> after(Len(unique_qids) - qi) + 1
          [] pc \in {"aggregate", "merge"} -> 1
          [] OTHER -> 0

\* the statement the view is at can run: the calls and the loop headers by their
\* conditions, the lines after a loop, which have no condition, by their position
CanStep ==
    \/ ENABLED (\E r \in ProbeResponses : TestConnection(r))
    \/ ENABLED LoadWorkbook
    \/ ENABLED NextQuestion
    \/ ENABLED (\E r \in Responses : Attempt(r))
    \/ ENABLED CatNextQuestion
    \/ ENABLED (\E r \in TableResponses : CatAttempt(r))
    \/ Coding /\ pc \in {"classify", "aggregate"}
    \/ Category /\ pc \in {"classify", "merge"}

\* C29: whatever the transport answers, both views end: a view that has not ended can
\* take a step, and every step brings the end nearer. A coding run over q distinct
\* questions makes at most 1 + 6q transport calls and a discovery run at most 1 + 5q,
\* and no question is called again once its attempts are used up.
C29_TerminatesWithinBudget ==
    /\ [](CallsBounded /\ StepsLeft \in Nat /\ (Done \/ CanStep))
    /\ [][StepsLeft' < StepsLeft]_vars

\* a coding run over two questions that has ended after 1 + 6 * 2 calls
C29_Witness ==
    /\ Coding /\ Done /\ Len(unique_qids) = 2
    /\ probes + calls = 1 + max_retries * 2

\* C30: for each question with a reply table, the CodeIds of the rows added to the
\* codebook are strictly increasing in the order of the rows, each is above every
\* CodeId the codebook had for that question, and there are as many added rows as
\* proposed rows whose CodeId the codebook did not have for that question.
C30_AcceptedCidsIncrease ==
    Merged =>
        \A i \in 1..Len(new_dfs) :
            LET acc == AcceptedFor(new_dfs[i].key)
                pre == PreMergeCids(new_dfs[i].key)
            IN  /\ \A j \in 1..(Len(acc) - 1) : acc[j].CID < acc[j + 1].CID
                /\ \A j \in 1..Len(acc) : \A c \in pre : acc[j].CID > c
                /\ Len(acc) = Cardinality({j \in 1..Len(new_dfs[i].rows) :
                                              new_dfs[i].rows[j].cid \notin pre})
====
